---- MODULE Spec2Model ----
(***************************************************************************)
(* AutoSpeedLimit (plugins.v2/autospeedlimit/__init__.py): cron-scheduled  *)
(* speed rules for a downloader.  Instants are seconds since               *)
(* 2018-01-01 00:00:00 (a Monday); cron expressions are sequences of field *)
(* tokens, expanded and matched the way croniter does.                     *)
(***************************************************************************)
EXTENDS Integers, Sequences, FiniteSets, TLC

\* ------------------------------------------------------------------ bounds
\* Longest rule list drawn for the rule-resolution specification.
MaxRules == 2
\* Days (after the first) covered by the sampled instants.
MaxDay == 2
\* How many days croniter's search is followed before giving up.
HorizonDays == 8
\* Longest time (seconds) the downloader call may take inside one cycle.
MaxDelay == 1

\* ---------------------------------------------------------------- calendar
SecPerMin == 60 * 1
SecPerHour == 60 * SecPerMin
SecPerDay == 24 * SecPerHour

Min(S) == CHOOSE x \in S : \A y \in S : x <= y
Max(S) == CHOOSE x \in S : \A y \in S : x >= y

\* Value standing for "no instant": a croniter search that raises, or the
\* None returned by _get_next_rule_change_time.
NoTime == 0 - 1

\* The least / greatest instant of S, or alt when S is empty.
MinOr(S, alt) == IF S # {} THEN Min(S) ELSE alt
MaxOr(S, alt) == IF S # {} THEN Max(S) ELSE alt

\* First day-of-year index (0 = 1 January) of each month of 2018, and of 2019.
MonthStart == <<0, 31, 59, 90, 120, 151, 181, 212, 243, 273, 304, 334, 365>>

DayIndex(t) == t \div SecPerDay
SecOfDay(t) == t % SecPerDay
\* datetime fields of an instant
RECURSIVE MonthFrom(_, _)
MonthFrom(d, m) == IF d < MonthStart[m + 1] THEN m ELSE MonthFrom(d, m + 1)
MonthOf(t) == MonthFrom(DayIndex(t), 1)
DayOf(t) == DayIndex(t) - MonthStart[MonthOf(t)] + 1
HourOf(t) == SecOfDay(t) \div SecPerHour
MinuteOf(t) == (SecOfDay(t) % SecPerHour) \div SecPerMin
\* datetime.weekday(): Monday = 0 ... Sunday = 6
weekday(t) == DayIndex(t) % 7
\* cron day-of-week: Sunday = 0 ... Saturday = 6
CronDow(t) == (DayIndex(t) + 1) % 7

\* -------------------------------------------------------- cron expressions
\* A cron expression is the sequence of its whitespace-separated tokens.
Star == [kind |-> "star", lo |-> 0, hi |-> 0]
Num(n) == [kind |-> "range", lo |-> n, hi |-> n]
Range(a, b) == [kind |-> "range", lo |-> a, hi |-> b]
Word == [kind |-> "word", lo |-> 0, hi |-> 0]

\* Field bounds of the five fields: minute hour day-of-month month day-of-week
FieldLo == <<0, 0, 1, 1, 0>>
FieldHi == <<59, 23, 31, 12, 7>>

TokenOk(tok, i) ==
    \/ tok.kind = "star"
    \/ /\ tok.kind = "range"
       /\ FieldLo[i] <= tok.lo /\ tok.lo <= tok.hi /\ tok.hi <= FieldHi[i]

\* croniter(expr, ...) raises for anything but five well-formed fields; the
\* searches below then yield NoTime.
is_valid(expr) == Len(expr) = 5 /\ \A i \in 1..5 : TokenOk(expr[i], i)

\* Least and greatest value a well-formed token admits in field i.
Lo(expr, i) == IF expr[i].kind = "star" THEN FieldLo[i] ELSE expr[i].lo
Hi(expr, i) == IF expr[i].kind = "star" THEN FieldHi[i] ELSE expr[i].hi

\* Field i admits value v; in the day-of-week field 7 is Sunday, as 0 is.
Admits(expr, i, v) ==
    \/ Lo(expr, i) <= v /\ v <= Hi(expr, i)
    \/ i = 5 /\ v = 0 /\ Hi(expr, i) = 7

\* Day part of the match: month, and day-of-month / day-of-week combined
\* with OR when both are restricted.
DayMatches(expr, t) ==
    /\ Admits(expr, 4, MonthOf(t))
    /\ IF expr[3].kind = "star" \/ expr[5].kind = "star"
       THEN Admits(expr, 3, DayOf(t)) /\ Admits(expr, 5, CronDow(t))
       ELSE Admits(expr, 3, DayOf(t)) \/ Admits(expr, 5, CronDow(t))

MinPerDay == 24 * 60

\* Minute of the day of the first firing at or after minute h1:m1, the hours
\* being hlo..hhi and the minutes mlo..mhi; NoTime when the day has none.
FirstFrom(hlo, hhi, mlo, mhi, h1, m1) ==
    IF h1 < hlo THEN hlo * 60 + mlo
    ELSE IF h1 > hhi THEN NoTime
    ELSE IF m1 <= mhi THEN h1 * 60 + (IF m1 > mlo THEN m1 ELSE mlo)
    ELSE IF h1 + 1 <= hhi THEN (h1 + 1) * 60 + mlo
    ELSE NoTime

\* Minute of the day of the last firing at or before minute h1:m1.
LastUpTo(hlo, hhi, mlo, mhi, h1, m1) ==
    IF h1 > hhi THEN hhi * 60 + mhi
    ELSE IF h1 < hlo THEN NoTime
    ELSE IF m1 >= mlo THEN h1 * 60 + (IF m1 < mhi THEN m1 ELSE mhi)
    ELSE IF h1 - 1 >= hlo THEN (h1 - 1) * 60 + mhi
    ELSE NoTime

\* Day d is a day of the modelled year on which the expression fires.
FiresOnDay(expr, d) ==
    d >= 0 /\ d < MonthStart[13] /\ DayMatches(expr, d * SecPerDay)

\* First firing of day d at or after minute q of that day (q may be one past
\* the day's last minute), last firing at or before minute q (q may be -1).
NextOn(expr, d, q) ==
    IF FiresOnDay(expr, d)
    THEN FirstFrom(Lo(expr, 2), Hi(expr, 2), Lo(expr, 1), Hi(expr, 1), q \div 60, q % 60)
    ELSE NoTime
PrevOn(expr, d, q) ==
    IF q >= 0 /\ FiresOnDay(expr, d)
    THEN LastUpTo(Lo(expr, 2), Hi(expr, 2), Lo(expr, 1), Hi(expr, 1), q \div 60, q % 60)
    ELSE NoTime

\* The instant of minute q of day d, or alt when q is absent.
InstantOr(d, q, alt) == IF q # NoTime THEN d * SecPerDay + q * SecPerMin ELSE alt

\* The search of croniter, day by day, for the first firing after t (forward)
\* or the last firing before t (backward); it raises when none is found.
RECURSIVE SearchNext(_, _, _, _)
SearchNext(expr, d, q, left) ==
    InstantOr(d, NextOn(expr, d, q),
              IF left = 0 THEN NoTime ELSE SearchNext(expr, d + 1, 0, left - 1))

RECURSIVE SearchPrev(_, _, _, _)
SearchPrev(expr, d, q, left) ==
    InstantOr(d, PrevOn(expr, d, q),
              IF left = 0 THEN NoTime ELSE SearchPrev(expr, d - 1, MinPerDay - 1, left - 1))

\* croniter(expr, t).get_next(): the first firing strictly after t.
get_next(expr, t) ==
    IF is_valid(expr)
    THEN SearchNext(expr, DayIndex(t), SecOfDay(t) \div SecPerMin + 1, HorizonDays)
    ELSE NoTime

\* croniter(expr, t).get_prev(): the last firing strictly before t.
get_prev(expr, t) ==
    IF is_valid(expr)
    THEN SearchPrev(expr, DayIndex(t), (SecOfDay(t) + SecPerMin - 1) \div SecPerMin - 1,
                    HorizonDays)
    ELSE NoTime

\* ------------------------------------------------------------------- rules
\* The form's default rule (hourly from 08:00 to 23:00), and other rules.
DefaultRule == [cron |-> <<Num(0), Range(8, 23), Star, Star, Star>>,
                upload_limit |-> 1, download_limit |-> 2]
MidnightRule == [cron |-> <<Num(0), Num(0), Star, Star, Star>>,
                 upload_limit |-> 0 - 1, download_limit |-> 0 - 1]
WeeklyRule == [cron |-> <<Num(0), Num(8), Star, Star, Num(1)>>,
               upload_limit |-> 2, download_limit |-> 0]
\* cron "not-a-cron"
BadRule == [cron |-> <<Word>>, upload_limit |-> 3, download_limit |-> 3]
\* cron "" (or no cron key)
EmptyRule == [cron |-> <<>>, upload_limit |-> 0, download_limit |-> 1]

RuleCatalogue == {DefaultRule, MidnightRule, WeeklyRule, BadRule, EmptyRule}

RECURSIVE SeqsUpTo(_, _)
SeqsUpTo(S, n) ==
    IF n = 0 THEN {<<>>}
    ELSE LET shorter == SeqsUpTo(S, n - 1)
         IN shorter \cup {Append(q, x) : q \in shorter, x \in S}

RuleLists == SeqsUpTo(RuleCatalogue, MaxRules)

\* ------------------------------------------------------- rule resolution
\* The window without its end: now < next_dt.
InWindow_open(prev_dt, t, next_dt) ==
    next_dt # NoTime /\ prev_dt <= t /\ t < next_dt

\* The test of line 210, next_dt being absent when get_next raised.
InWindow(prev_dt, t, next_dt) ==
    next_dt # NoTime /\ prev_dt <= t /\ t <= next_dt

\* iter.get_prev then iter.get_next: the second starts from prev_dt.
WindowOf(expr, t, prev_dt) ==
    prev_dt # NoTime /\ InWindow(prev_dt, t, get_next(expr, prev_dt))

\* Body of the loop of _get_current_rule for one rule: the rule is appended
\* to matching_rules (with prev_dt) unless it is skipped or croniter raises.
Candidate(rule, t) ==
    /\ Len(rule.cron) > 0
    /\ WindowOf(rule.cron, t, get_prev(rule.cron, t))

\* What the loop appends for the rule at position i, prev_dt being its
\* get_prev: the pair (rule, prev_dt) when line 210 holds.
Matched(i, expr, t, prev_dt) ==
    IF Len(expr) > 0 /\ WindowOf(expr, t, prev_dt)
    THEN <<[idx |-> i, prev |-> prev_dt]>> ELSE <<>>

RECURSIVE matching_rules(_, _, _)
matching_rules(rules, t, i) ==
    IF i > Len(rules) THEN <<>>
    ELSE Matched(i, rules[i].cron, t, get_prev(rules[i].cron, t))
             \o matching_rules(rules, t, i + 1)

\* min in place of max: the earliest window start wins.
PyMin(m) ==
    m[CHOOSE k \in 1..Len(m) :
          /\ \A j \in 1..Len(m) : m[j].prev >= m[k].prev
          /\ \A j \in 1..(k - 1) : m[j].prev > m[k].prev]

\* The last element with the largest key (a maximum kept on >=).
PyMax_last(m) ==
    m[CHOOSE k \in 1..Len(m) :
          /\ \A j \in 1..Len(m) : m[j].prev <= m[k].prev
          /\ \A j \in (k + 1)..Len(m) : m[j].prev < m[k].prev]

\* max(matching_rules, key=lambda x: x[1]): the first element with the
\* largest key.
PyMax(m) ==
    m[CHOOSE k \in 1..Len(m) :
          /\ \A j \in 1..Len(m) : m[j].prev <= m[k].prev
          /\ \A j \in 1..(k - 1) : m[j].prev < m[k].prev]

\* Lines 216-221: position of the chosen rule, 0 when nothing matched.
Chosen(m) == IF m = <<>> THEN 0 ELSE PyMax(m).idx

\* A parse error escaping the loop: no rule is resolved when any is malformed.
current_rule_index_abort(rules, t) ==
    IF \E i \in 1..Len(rules) : Len(rules[i].cron) > 0 /\ ~is_valid(rules[i].cron)
    THEN 0 ELSE Chosen(matching_rules(rules, t, 1))

\* Position in the rule list of the rule _get_current_rule returns, 0 for None.
current_rule_index(rules, t) == Chosen(matching_rules(rules, t, 1))

\* The rule at a position as an optional value: <<>> for None.
RuleAt(rules, i) == IF i = 0 THEN <<>> ELSE <<rules[i]>>

\* The first configured rule, whatever its schedule.
_get_current_rule_first(rules, t) ==
    IF rules = <<>> THEN <<>> ELSE <<rules[1]>>

\* _get_current_rule with self._speed_rules = rules and datetime.now() = t:
\* <<>> for None, <<rule>> otherwise.
_get_current_rule(rules, t) == RuleAt(rules, current_rule_index(rules, t))

\* next_times of _get_next_rule_change_time
NextOf(rule, t) ==
    IF Len(rule.cron) > 0 THEN get_next(rule.cron, t) ELSE NoTime

RECURSIVE next_times(_, _, _)
next_times(rules, t, i) ==
    IF i > Len(rules) THEN {}
    ELSE ({NextOf(rules[i], t)} \ {NoTime}) \cup next_times(rules, t, i + 1)

\* max in place of min: the latest of the rules' next firings.
_get_next_rule_change_time_max(rules, t) == MaxOr(next_times(rules, t, 1), NoTime)

_get_next_rule_change_time(rules, t) == MinOr(next_times(rules, t, 1), NoTime)

\* The factor applied to every value, the sentinel included.
ToKB_always(v) == v * 1024

\* MB/s to KB/s, -1 kept
ToKB(v) == IF v >= 0 THEN v * 1024 ELSE 0 - 1

\* f"{minute} {hour} {day} {month} {dow}" with dow = next_time.weekday()
cron_of(next_time) ==
    <<Num(MinuteOf(next_time)), Num(HourOf(next_time)), Num(DayOf(next_time)),
      Num(MonthOf(next_time)), Num(weekday(next_time))>>

\* Lines 157-167: the reply for the resolved rule.
StateOf(current_rule) ==
    IF current_rule = <<>>
    THEN [code |-> 0, msg |-> "no active rule", data |-> <<>>]
    ELSE [code |-> 0, msg |-> "current limits",
          data |-> <<[upload_limit |-> current_rule[1].upload_limit,
                      download_limit |-> current_rule[1].download_limit]>>]

\* The test of line 153 without its rule-list half.
get_current_state_unguarded(enabled, rules, t) ==
    IF ~enabled
    THEN [code |-> 1, msg |-> "not enabled or no rules", data |-> <<>>]
    ELSE StateOf(_get_current_rule(rules, t))

\* get_current_state: the reply, data being <<>> when absent or None.
get_current_state(enabled, rules, t) ==
    IF ~enabled \/ rules = <<>>
    THEN [code |-> 1, msg |-> "not enabled or no rules", data |-> <<>>]
    ELSE StateOf(_get_current_rule(rules, t))

\* get_state
get_state(enabled, rules) == enabled /\ rules # <<>>

\* ------------------------------------------------------------------- state
VARIABLES
    now,               \* datetime.now()
    _enabled,          \* self._enabled
    _downloader_name,  \* self._downloader_name, "" when None or empty
    _speed_rules,      \* self._speed_rules
    _cron,             \* self._cron: <<>> for None, else <<expression>>
    dl_limits,         \* limits in force in the downloader: <<>> until set
    config,            \* what get_config() returns: <<>> until saved
    last               \* what the most recent handler did (observable outputs)

vars == <<now, _enabled, _downloader_name, _speed_rules, _cron, dl_limits, config, last>>

\* First sampled day: Saturday 13 January.
StartDay == 5 + 7
SampleHours == {0, 3, 8, 14, 23}
SampleOffsets == {0 - 1, 0, 1}
Instants ==
    {(StartDay + d) * SecPerDay + h * SecPerHour + o :
        d \in 0..MaxDay, h \in SampleHours, o \in SampleOffsets}
\* Instants between which the lifecycle specification sleeps: Saturday
\* 14:00:00 and the seconds around Monday 08:00:00.
WakeInstants ==
    {t \in Instants : \/ weekday(t) = 5 /\ SecOfDay(t) = 14 * SecPerHour
                      \/ weekday(t) = 0 /\ HourOf(t + 1) = 8}

\* What DownloaderHelper.get_service / is_downloader / set_speed_limit do.
Services == {"absent", "no_instance", "wrong_type", "rpc_error", "ok"}
\* The downloader's behaviour and the seconds its call takes: a call that is
\* not made takes none.
\* The clock stays within MaxDelay seconds of the instants slept to.
Clock == {t + k : t \in WakeInstants, k \in 0..MaxDelay}
Calls ==
    {c \in [svc : Services, d : 0..MaxDelay] :
        /\ c.svc \in {"rpc_error", "ok"} \/ c.d = 0
        /\ c.d = 0 \/ now + c.d \in Clock}
\* Event payloads: none, another plugin's, this plugin's.
Events == {"none", "other", "speedlimit_state", "autospeedlimit"}

ConfigRuleLists == {<<>>, <<WeeklyRule>>, <<BadRule, DefaultRule>>}
Configs == [enabled : BOOLEAN, downloader : {"", "qb"}, speed_rules : ConfigRuleLists]

\* last: the handler that has just run (op), the outcome of its cycle, the
\* set_speed_limit call and the seconds it took, the message posted and the
\* reply returned; Idle once time has passed.
Idle == [op |-> "none", cycle |-> "none", call |-> <<>>, took |-> 0, notice |-> <<>>,
         reply |-> <<>>]

\* ------------------------------------------------------------ apply cycle
\* A cycle that drops the programmed trigger when it ends early.
Keep_unscheduled(outcome) ==
    [cycle |-> outcome, call |-> <<>>, notice |-> <<>>,
     cron |-> <<>>, dl |-> dl_limits, now |-> now]

\* A cycle that ends before the downloader is called.
Keep(outcome) ==
    [cycle |-> outcome, call |-> <<>>, notice |-> <<>>,
     cron |-> _cron, dl |-> dl_limits, now |-> now]

\* Lines 263-273: the limits as shown in the message, MB/s or unlimited.
LimitText(v) == IF v >= 0 THEN v \div 1024 ELSE 0 - 1

\* Lines 276-285: the expression programmed for next_time, if any.
Programmed(next_time) ==
    IF next_time # NoTime THEN <<cron_of(next_time)>> ELSE _cron

\* Lines 246-288: the call with the converted limits, ending at instant done.
Apply(rules, svc, args, done) ==
    IF svc = "rpc_error"
    THEN [cycle |-> "error", call |-> <<args>>, notice |-> <<>>,
          cron |-> _cron, dl |-> dl_limits, now |-> done]
    ELSE [cycle |-> "applied", call |-> <<args>>,
          notice |-> <<[kind |-> "limits set", unit |-> "MB/s",
                        upload |-> LimitText(args.upload_limit),
                        download |-> LimitText(args.download_limit)]>>,
          cron |-> Programmed(_get_next_rule_change_time(rules, done)),
          dl |-> <<args>>, now |-> done]

\* Lines 232-260, current_rule being what _get_current_rule returned.
Resolved(rules, svc, d, current_rule) ==
    IF current_rule = <<>> THEN Keep("no_rule")
    ELSE IF svc \in {"absent", "no_instance"} THEN Keep("no_downloader")
    ELSE IF svc = "wrong_type" THEN Keep("wrong_type")
    ELSE Apply(rules, svc,
               [upload_limit |-> ToKB(current_rule[1].upload_limit),
                download_limit |-> ToKB(current_rule[1].download_limit)],
               now + d)

\* Lines 229-288, current_rule being what line 232 obtains when it is reached.
Cycle(enabled, name, rules, svc, d, current_rule) ==
    IF ~enabled \/ rules = <<>> \/ name = "" THEN Keep("inactive")
    ELSE Resolved(rules, svc, d, current_rule)

\* check_and_set_speed_limit on the given fields, the downloader behaving as
\* svc and its call taking d seconds: the cycle's outcome, the set_speed_limit
\* call made, the message posted, and the new _cron, limits and clock.
check_and_set_speed_limit(enabled, name, rules, svc, d) ==
    Cycle(enabled, name, rules, svc, d, _get_current_rule(rules, now))

Effects(op, r) ==
    /\ _cron' = r.cron
    /\ dl_limits' = r.dl
    /\ now' = r.now
    /\ last' = [op |-> op, cycle |-> r.cycle, call |-> r.call, took |-> r.now - now,
                notice |-> r.notice, reply |-> <<>>]

NoCycle(op) ==
    /\ UNCHANGED <<_cron, dl_limits, now>>
    /\ last' = [Idle EXCEPT !.op = op]

\* init_plugin(conf), the fields taking the values the early returns leave.
init_plugin(conf, svc, d, op) ==
    /\ _enabled' = conf.enabled
    /\ _downloader_name' = IF conf.enabled THEN conf.downloader ELSE _downloader_name
    /\ _speed_rules' = IF conf.enabled /\ conf.downloader # ""
                       THEN conf.speed_rules ELSE _speed_rules
    /\ IF conf.enabled /\ conf.downloader # "" /\ conf.speed_rules # <<>>
       THEN Effects(op, check_and_set_speed_limit(
                TRUE, conf.downloader, conf.speed_rules, svc, d))
       ELSE NoCycle(op)

\* The host saves a configuration and initialises the plugin with it.
Configure ==
    \E conf \in Configs, c \in Calls :
        /\ (conf.enabled /\ conf.downloader # "" /\ conf.speed_rules # <<>>)
              \/ (c.svc = "ok" /\ c.d = 0)
        /\ config' = <<conf>>
        /\ init_plugin(conf, c.svc, c.d, "init_plugin")

\* plugin_reload: init_plugin(self.get_config()); with no saved configuration
\* config.get raises before any assignment.
plugin_reload ==
    \E c \in Calls :
        /\ UNCHANGED config
        /\ IF config = <<>>
           THEN /\ UNCHANGED <<_enabled, _downloader_name, _speed_rules>>
                /\ NoCycle("plugin_reload")
           ELSE init_plugin(config[1], c.svc, c.d, "plugin_reload")

\* webhook(event), current_rule being what _get_current_rule returns at the
\* instant of delivery, whatever the downloader then does.
Delivered(current_rule) ==
    \E ev \in Events, c \in Calls :
        /\ ev = "autospeedlimit" \/ (c.svc = "ok" /\ c.d = 0)
        /\ UNCHANGED <<_enabled, _downloader_name, _speed_rules, config>>
        /\ IF ev = "autospeedlimit"
           THEN Effects("webhook", Cycle(_enabled, _downloader_name, _speed_rules,
                                         c.svc, c.d, current_rule))
           ELSE NoCycle("webhook")

webhook == Delivered(_get_current_rule(_speed_rules, now))

\* A query that also drops the programmed trigger.
api_state_unscheduling ==
    /\ last' = [Idle EXCEPT !.op = "get_current_state",
                            !.reply = <<get_current_state(_enabled, _speed_rules, now)>>]
    /\ _cron' = <<>>
    /\ UNCHANGED <<now, _enabled, _downloader_name, _speed_rules, dl_limits, config>>

\* GET /speedlimit/state
api_state ==
    /\ last' = [Idle EXCEPT !.op = "get_current_state",
                            !.reply = <<get_current_state(_enabled, _speed_rules, now)>>]
    /\ UNCHANGED <<now, _enabled, _downloader_name, _speed_rules, _cron, dl_limits, config>>

\* Lines 304-316: the message posted for a state reply.
NoticeOf(state) ==
    IF state.code = 0 /\ state.data # <<>>
    THEN <<[kind |-> "current limits", unit |-> "KB/s",
            upload |-> state.data[1].upload_limit,
            download |-> state.data[1].download_limit]>>
    ELSE <<[kind |-> state.msg, unit |-> "", upload |-> 0, download |-> 0]>>

Answered(state) ==
    [Idle EXCEPT !.op = "handle_action", !.reply = <<state>>, !.notice = NoticeOf(state)]

\* handle_action(event)
handle_action ==
    \E ev \in Events :
        /\ UNCHANGED <<now, _enabled, _downloader_name, _speed_rules, _cron, dl_limits, config>>
        /\ IF ev # "speedlimit_state"
           THEN last' = [Idle EXCEPT !.op = "handle_action"]
           ELSE last' = Answered(get_current_state(_enabled, _speed_rules, now))

\* Time passes between handlers.
Sleep ==
    /\ \E t \in WakeInstants : t > now /\ now' = t
    /\ last' = Idle
    /\ UNCHANGED <<_enabled, _downloader_name, _speed_rules, _cron, dl_limits, config>>

Tick ==
    /\ \E t \in Instants : t > now /\ now' = t
    /\ last' = Idle
    /\ UNCHANGED <<_enabled, _downloader_name, _speed_rules, _cron, dl_limits, config>>

\* ---------------------------------------------------------- specifications
\* Plugin lifecycle: the class attributes, then handlers in any order.
Init ==
    /\ now \in WakeInstants
    /\ _enabled = FALSE
    /\ _downloader_name = ""
    /\ _speed_rules = <<>>
    /\ _cron = <<>>
    /\ dl_limits = <<>>
    /\ config = <<>>
    /\ last = Idle

Next ==
    \/ Configure
    \/ plugin_reload
    \/ webhook
    \/ api_state
    \/ handle_action
    \/ Sleep

Spec == Init /\ [][Next]_vars

\* Rule resolution: an enabled plugin holding any rule list at any sampled
\* instant (its first cycle found no downloader), queried as time passes.
InitRules ==
    /\ now \in Instants
    /\ _enabled = TRUE
    /\ _downloader_name = "qb"
    /\ _speed_rules \in RuleLists
    /\ _cron = <<>>
    /\ dl_limits = <<>>
    /\ config = <<[enabled |-> TRUE, downloader |-> "qb", speed_rules |-> _speed_rules]>>
    /\ last = Idle

NextRules ==
    \/ Tick
    \/ api_state
    \/ handle_action

SpecRules == InitRules /\ [][NextRules]_vars

\* Planning: the same plugin at one instant, its cycle triggered by webhook.
NextPlan ==
    \/ webhook
    \/ api_state

SpecPlan == InitRules /\ [][NextPlan]_vars

\* ------------------------------------------------------------- properties
\* The expression fires at instant t.
Fires(expr, t) ==
    /\ is_valid(expr)
    /\ t % SecPerMin = 0
    /\ Admits(expr, 1, MinuteOf(t))
    /\ Admits(expr, 2, HourOf(t))
    /\ DayMatches(expr, t)

\* The rules of a list whose schedule parses.
HasSchedule(rule) == Len(rule.cron) > 0 /\ is_valid(rule.cron)
ValidOnly(rules) == SelectSeq(rules, HasSchedule)
ValidAt(rules) == {i \in 1..Len(rules) : HasSchedule(rules[i])}

\* p and n are firings of the expression with p <= t <= n.
Brackets(expr, t, p, n) ==
    Fires(expr, p) /\ Fires(expr, n) /\ p <= t /\ t <= n
WindowBrackets(expr, t, p) == Brackets(expr, t, p, get_next(expr, p))

ResultInWindow(rules, t, r) ==
    r # <<>> =>
      /\ \E i \in 1..Len(rules) : rules[i] = r[1]
      /\ HasSchedule(r[1])
      /\ WindowBrackets(r[1].cron, t, get_prev(r[1].cron, t))

\* C1: the rule resolved at now is absent, or is a rule of the list with a
\* valid schedule, whose previous firing p and next firing n (both firings of
\* its own schedule) satisfy p <= now <= n.
C1_ResultWindowContainsNow ==
    ResultInWindow(_speed_rules, now, _get_current_rule(_speed_rules, now))

C1_Witness ==
    /\ last.op = "get_current_state"
    /\ last.reply[1].code = 0 /\ last.reply[1].data # <<>>
    /\ \E i \in 1..Len(_speed_rules) : ~HasSchedule(_speed_rules[i])

LatestStart(rules, t, i) ==
    \A j \in 1..Len(rules) :
      Candidate(rules[j], t) =>
        (i # 0 /\ get_prev(rules[j].cron, t) <= get_prev(rules[i].cron, t))

\* C2: among the candidates at now (rules whose window contains now), no
\* candidate has a window start later than that of the resolved rule.
C2_LatestWindowStartWins ==
    LatestStart(_speed_rules, now, current_rule_index(_speed_rules, now))

C2_Witness ==
    /\ last.op = "get_current_state"
    /\ \E i, j \in 1..Len(_speed_rules) :
         /\ i < j
         /\ Candidate(_speed_rules[i], now) /\ Candidate(_speed_rules[j], now)
         /\ get_prev(_speed_rules[i].cron, now) > get_prev(_speed_rules[j].cron, now)
         /\ last.reply[1].data = <<[upload_limit |-> _speed_rules[i].upload_limit,
                                    download_limit |-> _speed_rules[i].download_limit]>>
         /\ _speed_rules[i].upload_limit # _speed_rules[j].upload_limit

MinimumOfNext(rules, t, T) ==
    /\ (T = NoTime) <=> (ValidAt(rules) = {})
    /\ T # NoTime =>
         /\ T > t
         /\ \A i \in ValidAt(rules) : T <= get_next(rules[i].cron, t)
         /\ \E i \in ValidAt(rules) : T = get_next(rules[i].cron, t) /\ Fires(rules[i].cron, T)

\* C3: the next transition is absent exactly when no rule has a valid
\* schedule; otherwise it is the least of the valid rules' first firings after
\* now: later than now, a firing of one of them, and no later than any of theirs.
C3_NextTransitionIsMinimum ==
    MinimumOfNext(_speed_rules, now, _get_next_rule_change_time(_speed_rules, now))

C3_Witness ==
    /\ last.op = "webhook" /\ last.cycle = "applied" /\ last.took = 0
    /\ \E i, j \in 1..Len(_speed_rules) :
         /\ HasSchedule(_speed_rules[i]) /\ HasSchedule(_speed_rules[j])
         /\ get_next(_speed_rules[i].cron, now) < get_next(_speed_rules[j].cron, now)
         /\ _cron = <<cron_of(get_next(_speed_rules[i].cron, now))>>

StableBefore(T) ==
    (T # NoTime /\ _speed_rules' = _speed_rules /\ now < now' /\ now' < T) =>
      _get_current_rule(_speed_rules, now') = _get_current_rule(_speed_rules, now)

\* C4: from now until the next transition T the resolved rule does not
\* change: at every later instant before T it is the rule resolved at now.
C4_StableUntilNextTransition ==
    [][StableBefore(_get_next_rule_change_time(_speed_rules, now))]_vars

\* C5: with the single rule "0 8-23 * * *", at an instant after 23:00 and
\* before 08:00, get_current_state finds no active rule.
C5_NoRuleAtNight ==
    (/\ _speed_rules = <<DefaultRule>>
     /\ (SecOfDay(now) > 23 * SecPerHour \/ SecOfDay(now) < 8 * SecPerHour)
     /\ last.op = "get_current_state")
    => last.reply[1].data = <<>>

\* C6: malformed rules are skipped: the resolved rule and the next transition
\* are those of the rule list with the malformed rules removed.
C6_MalformedRulesSkipped ==
    /\ _get_current_rule(_speed_rules, now) = _get_current_rule(ValidOnly(_speed_rules), now)
    /\ _get_next_rule_change_time(_speed_rules, now)
         = _get_next_rule_change_time(ValidOnly(_speed_rules), now)

C6_Witness ==
    /\ last.op = "get_current_state"
    /\ last.reply[1].data # <<>>
    /\ Len(_speed_rules) >= 2
    /\ is_valid(_speed_rules[1].cron) = FALSE /\ Len(_speed_rules[1].cron) > 0
    /\ current_rule_index(_speed_rules, now) = 2

WakesAt(t0, T) ==
    T # NoTime => (_cron # <<>> /\ get_next(_cron[1], t0) = T)

\* C7: after a cycle that applied a rule at instant t0, the first firing of the
\* expression stored in _cron after t0 is the next transition computed at t0.
C7_NextWakeIsNextTransition ==
    last.cycle = "applied" =>
      WakesAt(now - last.took, _get_next_rule_change_time(_speed_rules, now - last.took))

\* C8: after a failed cycle (no downloader, wrong type, failing call) a next
\* wake-up is still programmed.
C8_RetryStaysScheduled ==
    last.cycle \in {"no_downloader", "wrong_type", "error"} => _cron # <<>>

AppliedUnits(data, rule) ==
    /\ data.upload_limit = ToKB(rule.upload_limit)
    /\ data.download_limit = ToKB(rule.download_limit)

\* C9: the limits reported by get_current_state are those the apply step
\* passes to set_speed_limit for the same rule (KB/s).
C9_StateInNativeUnit ==
    (last.reply # <<>> /\ last.reply[1].data # <<>>) =>
      AppliedUnits(last.reply[1].data[1], _get_current_rule(_speed_rules, now)[1])

\* C10: when the last configuration is enabled but names no downloader or has
\* no rules, the plugin is inactive: get_state() is false, get_current_state
\* reports code 1 and no cycle calls the downloader.
C10_InactiveUntilReconfigured ==
    (/\ config # <<>>
     /\ config[1].enabled
     /\ (config[1].downloader = "" \/ config[1].speed_rules = <<>>))
    => /\ ~get_state(_enabled, _speed_rules)
       /\ get_current_state(_enabled, _speed_rules, now).code = 1
       /\ last.call = <<>>

\* The value set_speed_limit must receive for a configured limit v.
Converted(v, k) ==
    /\ v >= 0 => k = v * 1024
    /\ v = 0 - 1 => k = 0 - 1
    /\ v = 2 => k = 2048
    /\ v = 1 => k = 1024
    /\ v = 0 => k = 0

PassedFrom(call, rule) ==
    /\ Converted(rule.upload_limit, call.upload_limit)
    /\ Converted(rule.download_limit, call.download_limit)

\* C11: whenever a cycle calls set_speed_limit, each argument is the
\* corresponding limit of the rule resolved when the cycle started, converted
\* on its own: v >= 0 is passed as v * 1024 and -1 is passed as -1.
C11_LimitsConvertedToKB ==
    last.call # <<>> =>
      PassedFrom(last.call[1], _get_current_rule(_speed_rules, now - last.took)[1])

C11_Witness ==
    /\ last.cycle = "applied"
    /\ _get_current_rule(_speed_rules, now) = <<MidnightRule>>
    /\ last.call = <<[upload_limit |-> 0 - 1, download_limit |-> 0 - 1]>>
    /\ dl_limits = last.call

\* The fields as the handler that ran the cycle left them before the cycle:
\* webhook assigns none, init_plugin assigns all three from the configuration.
FieldsKept ==
    IF last'.op = "webhook"
    THEN UNCHANGED <<_enabled, _downloader_name, _speed_rules>>
    ELSE /\ _enabled' = config'[1].enabled
         /\ _downloader_name' = config'[1].downloader
         /\ _speed_rules' = config'[1].speed_rules

AbortsUntouched ==
    last'.cycle \in {"no_downloader", "wrong_type"} =>
      /\ last'.call = <<>>
      /\ last'.notice = <<>>
      /\ dl_limits' = dl_limits
      /\ _cron' = _cron
      /\ FieldsKept

\* C12: a cycle that finds no downloader instance, or one of another type,
\* calls set_speed_limit not at all, posts no message, and leaves the enabled
\* flag, the rule list, the downloader name and the programmed trigger as they
\* were when the cycle started.
C12_UnavailableDownloaderChangesNothing == [][AbortsUntouched]_vars

C12_Witness ==
    /\ last.op = "webhook"
    /\ last.cycle \in {"no_downloader", "wrong_type"}
    /\ _cron # <<>>
    /\ dl_limits # <<>>

\* What the reply must be when the resolved rule is current_rule.
ReplyFor(state, enabled, rules, current_rule) ==
    /\ state.code \in {0, 1}
    /\ (state.code = 1) <=> (~enabled \/ rules = <<>>)
    /\ state.code = 1 => state.data = <<>>
    /\ state.code = 0 => ((state.data = <<>>) <=> (current_rule = <<>>))
    /\ (state.code = 0 /\ current_rule # <<>>) =>
         state.data = <<[upload_limit |-> current_rule[1].upload_limit,
                         download_limit |-> current_rule[1].download_limit]>>

\* C13: for the rule list held and either value of the enabled flag,
\* get_current_state replies code 1 exactly when the plugin is disabled or has
\* no rules; otherwise code 0, with no data exactly when no rule is resolved
\* and with the resolved rule's two limits as data when one is; the reply of
\* the query that has just run is that reply.
C13_StateCodes ==
    /\ \A enabled \in BOOLEAN :
         ReplyFor(get_current_state(enabled, _speed_rules, now), enabled, _speed_rules,
                  _get_current_rule(_speed_rules, now))
    /\ last.op = "get_current_state" =>
         last.reply = <<get_current_state(_enabled, _speed_rules, now)>>

C13_Witness ==
    /\ last.op = "get_current_state"
    /\ _speed_rules # <<>>
    /\ last.reply[1].code = 0
    /\ last.reply[1].data = <<>>

QueriesChangeNothing ==
    /\ last'.op \in {"get_current_state", "handle_action"} =>
         UNCHANGED <<_speed_rules, _enabled, _downloader_name, _cron, dl_limits>>
    /\ (last.reply # <<>> /\ last'.reply # <<>> /\ now' = now) =>
         last'.reply = last.reply
    /\ (last.cycle = "applied" /\ last'.cycle = "applied" /\ last'.op = "webhook"
          /\ now' = now) =>
         (_cron' = _cron /\ last'.call = last.call)

\* C14: a query (get_current_state, the speedlimit_state command) leaves the
\* rule list, the enabled flag, the downloader name, the programmed trigger
\* and the downloader's limits as they were; a second query at the same
\* instant gets the reply of the first, and a second cycle at the same
\* instant over the same rules passes the same limits and programs the same
\* trigger.
C14_QueriesArePure == [][QueriesChangeNothing]_vars

C14_Witness ==
    /\ last.op = "handle_action"
    /\ last.reply # <<>>
    /\ last.reply[1].data # <<>>
    /\ _cron # <<>>
    /\ dl_limits # <<>>

\* The rules of the list whose schedule fires exactly at t.
FiringAt(rules, t) == {i \in ValidAt(rules) : Fires(rules[i].cron, t)}

\* C15: when a query runs at an instant that is a firing time of some rule,
\* the rule it reports is one whose schedule fires at that instant (its window
\* has just started), not a rule whose latest firing is earlier.
C15_FiringInstantStartsWindow ==
    (last.op = "get_current_state" /\ FiringAt(_speed_rules, now) # {}) =>
      /\ current_rule_index(_speed_rules, now) \in FiringAt(_speed_rules, now)
      /\ \E i \in FiringAt(_speed_rules, now) :
            last.reply = <<StateOf(<<_speed_rules[i]>>)>>

\* The candidates at t are exactly the rules whose schedule parses.
CandidatesAreValid(rules, t) ==
    \A i \in 1..Len(rules) : Candidate(rules[i], t) <=> HasSchedule(rules[i])

\* C16: at every instant every rule with a non-empty schedule that parses is
\* a candidate, so no rule is resolved exactly when the list has no such
\* rule; and with such a list no cycle has called set_speed_limit or
\* programmed a trigger.
C16_NoRuleOnlyWithoutValidSchedule ==
    /\ CandidatesAreValid(_speed_rules, now)
    /\ (_get_current_rule(_speed_rules, now) = <<>>) <=> (ValidAt(_speed_rules) = {})
    /\ ValidAt(_speed_rules) = {} =>
         /\ last.cycle \in {"none", "inactive", "no_rule"}
         /\ last.call = <<>>
         /\ dl_limits = <<>>
         /\ _cron = <<>>

C16_Witness ==
    /\ last.op = "webhook"
    /\ last.cycle = "no_rule"
    /\ _speed_rules # <<>>
    /\ _cron = <<>>

\* Position i holds the first of the candidates that share its window start.
FirstOfEqualStarts(rules, t, i) ==
    i # 0 =>
      \A j \in 1..Len(rules) :
        (Candidate(rules[j], t) /\ get_prev(rules[j].cron, t) = get_prev(rules[i].cron, t))
          => i <= j

\* C17: when several candidates share the latest window start, the rule
\* resolved, and reported by a query, is the one earliest in the rule list.
C17_EarliestOfTiedRulesWins ==
    /\ FirstOfEqualStarts(_speed_rules, now, current_rule_index(_speed_rules, now))
    /\ (last.op = "get_current_state" /\ current_rule_index(_speed_rules, now) # 0) =>
         last.reply =
           <<StateOf(<<_speed_rules[current_rule_index(_speed_rules, now)]>>)>>

C17_Witness ==
    /\ last.op = "get_current_state"
    /\ Len(_speed_rules) = 2
    /\ Candidate(_speed_rules[1], now) /\ Candidate(_speed_rules[2], now)
    /\ get_prev(_speed_rules[1].cron, now) = get_prev(_speed_rules[2].cron, now)
    /\ _speed_rules[1].cron # _speed_rules[2].cron
    /\ _speed_rules[1].upload_limit # _speed_rules[2].upload_limit
    /\ last.reply = <<StateOf(<<_speed_rules[1]>>)>>

====
